---- MODULE Spec2Model ----
(***************************************************************************)
(* A model of filevars (src/src/filevars.c): the registry of file          *)
(* variables built by SetupFileVar, the print dispatch loop of main, the   *)
(* lookup and rendering step PrintFileVar, and the termination handler.    *)
(*                                                                         *)
(* The variable server, the JSON reader, the template renderer and the     *)
(* operating system are collaborators: each call to them is a step whose   *)
(* outcome ranges over every result the call can produce.                  *)
(***************************************************************************)
EXTENDS Integers, Sequences, FiniteSets, TLC

(***************************************************************************)
(* Bounds of the model.                                                    *)
(***************************************************************************)
\* longest configuration array
MaxCfg == 2
\* largest variable handle the server reports
MaxHandle == 2
\* largest file descriptor the process is given
MaxFd == 1
\* largest print session token (sigval)
MaxToken == 1

(***************************************************************************)
(* Program constants.                                                      *)
(***************************************************************************)
VAR_INVALID == 0
EOK == 0
ENOENT == 2
EINVAL == 22

\* a NULL pointer: an absent JSON attribute, a failed strdup, a failed open
NULL == "NULL"
\* the value of `result' before PrintFileVar has returned in an iteration
NoResult == -1

\* no print request is pending
NoRequest == [hVar |-> -1, fd |-> -1]

\* the signals VARSERVER_WaitSignal can return
SIG_VAR_PRINT == "SIG_VAR_PRINT"
SIG_OTHER == "SIG_OTHER"
Signals == {SIG_VAR_PRINT, SIG_OTHER}

\* variable names that may appear in a configuration record
Names == {"A", "B", "U"}
\* template file names that may appear in a configuration record
Files == {"a.tpl", "b.tpl"}

Handles == 0..MaxHandle
Fds == 0..MaxFd
Tokens == 1..MaxToken

\* a configuration record: the string value of its "var" attribute and of
\* its "file" attribute, NULL when the attribute is absent
Records == [var : Names \cup {NULL}, file : Files \cup {NULL}]

\* the sequences over S of length at most n
SeqUpTo(S, n) == UNION {[1..k -> S] : k \in 0..n}

(***************************************************************************)
(* VAR_FindByName: the server's namespace.  "A" and "B" name variables,    *)
(* "U" names none.                                                         *)
(***************************************************************************)
VAR_FindByName(name) ==
    CASE name = "A" -> 1
      [] name = "B" -> 2
      [] OTHER -> VAR_INVALID

VARIABLES
    pc,          \* position of the process in main
    argc,        \* number of command line arguments
    installed,   \* the termination handler is installed
    hVarServer,  \* state.hVarServer
    conn,        \* the connection to the variable server
    cfg,         \* the configuration array
    idx,         \* position of JSON_Iterate in the configuration array
    setupResult, \* what SetupFileVar returned for each record visited
    mallocLog,   \* what malloc did in SetupFileVar for each record visited
    pFileVars,   \* state.pFileVars, head of the list first
    subscribed,  \* handles VAR_Notify was called with
    sig,         \* main: sig
    sigval,      \* main: sigval
    hVar,        \* main: hVar
    fd,          \* main: fd
    request,     \* the print request of the session the process holds
    acquired,    \* what VAR_OpenPrintSession returned in this iteration
    sessions,    \* tokens of the print sessions the process holds
    result,      \* what PrintFileVar returned in this iteration
    openLog,     \* the open() calls of this iteration
    renderLog,   \* the TEMPLATE_FileToFile calls of this iteration
    closeLog,    \* the VAR_ClosePrintSession calls of this iteration
    openFds,     \* template file descriptors the process holds open
    exitStatus   \* exit status of the process

vars == <<pc, argc, installed, hVarServer, conn, cfg, idx, setupResult,
          mallocLog, pFileVars, subscribed, sig, sigval, hVar, fd, request, acquired,
          sessions, result, openLog, renderLog, closeLog, openFds, exitStatus>>

startupVars == <<argc, installed, hVarServer, conn, cfg, idx, setupResult,
                 mallocLog, pFileVars, subscribed>>
loopVars == <<sig, sigval, hVar, fd, request, acquired, sessions, result,
              openLog, renderLog, closeLog, openFds>>

(***************************************************************************)
(* The state at entry to main, after the memset of the state object.  The  *)
(* locals hVar and fd of main are not initialised: they hold any value.    *)
(***************************************************************************)
Init ==
    /\ pc = "start"
    /\ argc \in {1, 2}
    /\ installed = FALSE
    /\ hVarServer = NULL
    /\ conn = "none"
    /\ cfg \in SeqUpTo(Records, MaxCfg)
    /\ idx = 1
    /\ setupResult = <<>>
    /\ mallocLog = <<>>
    /\ pFileVars = <<>>
    /\ subscribed = {}
    /\ sig = NULL
    /\ sigval = 0
    /\ hVar \in Handles
    /\ fd \in Fds
    /\ request = NoRequest
    /\ acquired = NULL
    /\ sessions = {}
    /\ result = NoResult
    /\ openLog = <<>>
    /\ renderLog = <<>>
    /\ closeLog = <<>>
    /\ openFds = {}
    /\ exitStatus = NoResult

(***************************************************************************)
(* main, lines 153-157: too few arguments.                                 *)
(***************************************************************************)
Usage ==
    /\ pc = "start"
    /\ argc < 2
    /\ pc' = "exited"
    /\ exitStatus' = 1
    /\ UNCHANGED <<startupVars, loopVars>>

(***************************************************************************)
(* SetupTerminationHandler, then the reading of the options and of the     *)
(* configuration file.                                                     *)
(***************************************************************************)
SetupTerminationHandler ==
    /\ pc = "start"
    /\ argc >= 2
    /\ installed' = TRUE
    /\ pc' = "open"
    /\ UNCHANGED <<argc, hVarServer, conn, cfg, idx, setupResult, mallocLog,
                   pFileVars, subscribed, loopVars, exitStatus>>

(***************************************************************************)
(* main, line 172: the call of VARSERVER_Open connects to the variable     *)
(* server, or fails.  Its result is not yet in state.hVarServer.           *)
(***************************************************************************)
VARSERVER_Open ==
    /\ pc = "open"
    /\ \E ok \in BOOLEAN :
          conn' = IF ok THEN "open" ELSE conn
    /\ pc' = "opened"
    /\ UNCHANGED <<argc, installed, hVarServer, cfg, idx, setupResult,
                   mallocLog, pFileVars, subscribed, loopVars, exitStatus>>

\* StoreServerHandle going on to the configuration with a NULL handle
StoreServerHandle_NoNullTest ==
    /\ pc = "opened"
    /\ hVarServer' = IF conn = "open" THEN "VS" ELSE NULL
    /\ pc' = "setup"
    /\ UNCHANGED <<argc, installed, conn, cfg, idx, setupResult, mallocLog,
                   pFileVars, subscribed, loopVars, exitStatus>>

(***************************************************************************)
(* main, lines 172-173: the result of VARSERVER_Open is stored in          *)
(* state.hVarServer.  With NULL main returns without entering the loop.    *)
(***************************************************************************)
StoreServerHandle ==
    /\ pc = "opened"
    /\ IF conn = "open"
       THEN /\ hVarServer' = "VS"
            /\ pc' = "setup"
       ELSE /\ hVarServer' = NULL
            /\ pc' = "returned"
    /\ UNCHANGED <<argc, installed, conn, cfg, idx, setupResult, mallocLog,
                   pFileVars, subscribed, loopVars, exitStatus>>

(***************************************************************************)
(* SetupFileVar, lines 228-276, called by JSON_Iterate (line 176) for the  *)
(* record at idx.  malloc and strdup succeed or fail.  The handle that     *)
(* VAR_FindByName returns is stored and subscribed without being tested.   *)
(***************************************************************************)
NewFileVar(node, strdupOk) ==
    [hVar |-> VAR_FindByName(node.var),
     pFilename |-> IF strdupOk THEN node.file ELSE NULL]

\* VAR_Notify subscribing only handles that are valid
Notify_ValidOnly(handles, h) ==
    IF h # VAR_INVALID THEN handles \cup {h} ELSE handles

\* line 265: VAR_Notify is called with the handle, whatever it is
Notify(handles, h) == handles \cup {h}

\* lines 267-268: the new entry becomes the head of the list
\* (as a mutant: the new entry linked at the tail)
LinkAtHead_AtTail(pFilevar, list) == Append(list, pFilevar)

LinkAtHead(pFilevar, list) == <<pFilevar>> \o list

SetupFileVar ==
    /\ pc = "setup"
    /\ idx <= Len(cfg)
    /\ LET node == cfg[idx]
           varname == node.var
           filename == node.file
       IN  IF varname # NULL /\ filename # NULL
           THEN \E mallocOk \in BOOLEAN, strdupOk \in BOOLEAN :
                   IF mallocOk
                   THEN LET pFilevar == NewFileVar(node, strdupOk)
                        IN  /\ subscribed' = Notify(subscribed, pFilevar.hVar)
                            /\ pFileVars' = LinkAtHead(pFilevar, pFileVars)
                            /\ setupResult' = Append(setupResult, EOK)
                            /\ mallocLog' = Append(mallocLog, "ok")
                   ELSE /\ setupResult' = Append(setupResult, EINVAL)
                        /\ mallocLog' = Append(mallocLog, "nomem")
                        /\ UNCHANGED <<subscribed, pFileVars>>
           ELSE /\ setupResult' = Append(setupResult, EINVAL)
                /\ mallocLog' = Append(mallocLog, "none")
                /\ UNCHANGED <<subscribed, pFileVars>>
    /\ idx' = idx + 1
    /\ UNCHANGED <<pc, argc, installed, hVarServer, conn, cfg, loopVars,
                   exitStatus>>

\* main leaving when JSON_Iterate reports that a record failed
EnterLoop_OnlyIfAllOk ==
    /\ pc = "setup"
    /\ idx > Len(cfg)
    /\ pc' = IF \A k \in 1..Len(setupResult) : setupResult[k] = EOK
             THEN "wait" ELSE "returned"
    /\ UNCHANGED <<startupVars, loopVars, exitStatus>>

(***************************************************************************)
(* main, lines 176-178: JSON_Iterate has visited every record; the loop is *)
(* entered.                                                                *)
(***************************************************************************)
EnterLoop ==
    /\ pc = "setup"
    /\ idx > Len(cfg)
    /\ pc' = "wait"
    /\ UNCHANGED <<startupVars, loopVars, exitStatus>>

\* VARSERVER_WaitSignal followed by the dispatch whatever the signal is
VARSERVER_WaitSignal_NoSignalTest ==
    /\ pc = "wait"
    /\ \E s \in Signals, v \in Tokens :
          /\ sig' = s
          /\ sigval' = v
    /\ pc' = "acquire"
    /\ acquired' = NULL
    /\ result' = NoResult
    /\ openLog' = <<>>
    /\ renderLog' = <<>>
    /\ closeLog' = <<>>
    /\ UNCHANGED <<startupVars, hVar, fd, request, sessions, openFds,
                   exitStatus>>

(***************************************************************************)
(* main, lines 181-182: VARSERVER_WaitSignal returns a signal and its      *)
(* value, for a print signal the token of the print session.  Any other    *)
(* signal leaves the loop waiting.                                         *)
(***************************************************************************)
VARSERVER_WaitSignal ==
    /\ pc = "wait"
    /\ \E s \in Signals, v \in Tokens :
          /\ sig' = s
          /\ sigval' = v
          /\ pc' = IF s = SIG_VAR_PRINT THEN "acquire" ELSE "wait"
    /\ acquired' = NULL
    /\ result' = NoResult
    /\ openLog' = <<>>
    /\ renderLog' = <<>>
    /\ closeLog' = <<>>
    /\ UNCHANGED <<startupVars, hVar, fd, request, sessions, openFds,
                   exitStatus>>

(***************************************************************************)
(* main, lines 185-188: VAR_OpenPrintSession.  Its return value is not     *)
(* read.  On success the server has a request behind the token, for some   *)
(* handle and some output descriptor that the process receives, and the    *)
(* call stores both.  On failure it stores nothing, or the handle alone,   *)
(* and hVar and fd keep what they held.                                    *)
(***************************************************************************)
VAR_OpenPrintSession ==
    /\ pc = "acquire"
    /\ \/ \E h \in Handles, o \in Fds \ openFds :
             /\ acquired' = "ok"
             /\ request' = [hVar |-> h, fd |-> o]
             /\ hVar' = h
             /\ fd' = o
             /\ sessions' = sessions \cup {sigval}
       \/ \E h \in Handles :
             /\ acquired' = "failed"
             /\ request' = NoRequest
             /\ hVar' \in {hVar, h}
             /\ fd' = fd
             /\ sessions' = sessions
    /\ pc' = "print"
    /\ UNCHANGED <<startupVars, sig, sigval, result, openLog, renderLog,
                   closeLog, openFds, exitStatus>>

(***************************************************************************)
(* PrintFileVar, lines 316-333: the scan of the list from its head.  The   *)
(* position of the first entry whose handle is h, 0 when there is none.    *)
(***************************************************************************)
RECURSIVE ScanFrom(_, _, _)
ScanFrom(list, h, i) ==
    IF i > Len(list) THEN 0
    ELSE IF list[i].hVar = h THEN i
    ELSE ScanFrom(list, h, i + 1)

\* a scan that keeps going and ends on the last entry whose handle is h
RECURSIVE ScanLast(_, _, _)
ScanLast(list, h, i) ==
    IF i = 0 THEN 0
    ELSE IF list[i].hVar = h THEN i
    ELSE ScanLast(list, h, i - 1)

FindFileVar_LastMatch(list, h) == ScanLast(list, h, Len(list))

FindFileVar(list, h) == ScanFrom(list, h, 1)

(***************************************************************************)
(* PrintFileVar, lines 311-312: the test of the arguments.  pState is the  *)
(* address of the state object and is never NULL.                          *)
(***************************************************************************)
\* the test of the arguments without the test of the handle
ValidArgs_NoHandleTest(h) == TRUE

ValidArgs(h) == h # VAR_INVALID

(***************************************************************************)
(* PrintFileVar, line 322: the test of the descriptor open returned.       *)
(***************************************************************************)
\* the test of the descriptor written as `if( fd_in )'
Opened_NonZero(fd_in) == fd_in # 0

Opened(fd_in) == fd_in > 0

(***************************************************************************)
(* open(path, O_RDONLY), line 321: -1, or a descriptor the process does    *)
(* not have open.  A NULL path cannot be opened.                           *)
(***************************************************************************)
OpenResults(path) ==
    IF path = NULL THEN {-1}
    ELSE {-1} \cup (Fds \ (openFds \cup IF acquired = "ok" THEN {fd} ELSE {}))

(***************************************************************************)
(* PrintFileVar, lines 307, 314 and 328: the value returned for handle h   *)
(* when the scan stopped at position i.                                    *)
(***************************************************************************)
\* `result = EOK' placed after the scan instead of inside the match
PrintResult_OkAfterScan(h, i) ==
    IF ~ValidArgs(h) THEN EINVAL ELSE EOK

PrintResult(h, i) ==
    IF ~ValidArgs(h) THEN EINVAL
    ELSE IF i = 0 THEN ENOENT
    ELSE EOK

(***************************************************************************)
(* PrintFileVar, lines 305-337, called at line 191 with the hVar and fd of *)
(* main.                                                                   *)
(***************************************************************************)
\* the list without its entry at position i
Unlink(list, i) == SubSeq(list, 1, i - 1) \o SubSeq(list, i + 1, Len(list))

\* PrintFileVar unlinking the entry whose file it could not open
PrintFileVar_UnlinkOnFailure ==
    /\ pc = "print"
    /\ IF ~ValidArgs(hVar)
       THEN /\ result' = PrintResult(hVar, 0)
            /\ UNCHANGED <<openLog, renderLog, openFds, pFileVars>>
       ELSE LET i == FindFileVar(pFileVars, hVar)
            IN  IF i = 0
                THEN /\ result' = PrintResult(hVar, i)
                     /\ UNCHANGED <<openLog, renderLog, openFds, pFileVars>>
                ELSE \E fd_in \in OpenResults(pFileVars[i].pFilename) :
                        /\ openLog' = Append(openLog,
                              [entry |-> i,
                               file |-> pFileVars[i].pFilename,
                               fd_in |-> fd_in])
                        /\ IF Opened(fd_in)
                           THEN /\ renderLog' = Append(renderLog,
                                     [file |-> pFileVars[i].pFilename,
                                      fd_in |-> fd_in, out |-> fd])
                                /\ openFds' = openFds
                                /\ pFileVars' = pFileVars
                           ELSE /\ renderLog' = renderLog
                                /\ openFds' = IF fd_in >= 0
                                              THEN openFds \cup {fd_in}
                                              ELSE openFds
                                /\ pFileVars' = Unlink(pFileVars, i)
                        /\ result' = PrintResult(hVar, i)
    /\ pc' = "close"
    /\ UNCHANGED <<argc, installed, hVarServer, conn, cfg, idx, setupResult,
                   mallocLog, subscribed, sig, sigval, hVar, fd, request,
                   acquired, sessions, closeLog, exitStatus>>

PrintFileVar ==
    /\ pc = "print"
    /\ IF ~ValidArgs(hVar)
       THEN /\ result' = PrintResult(hVar, 0)
            /\ UNCHANGED <<openLog, renderLog, openFds>>
       ELSE LET i == FindFileVar(pFileVars, hVar)
            IN  IF i = 0
                THEN /\ result' = PrintResult(hVar, i)
                     /\ UNCHANGED <<openLog, renderLog, openFds>>
                ELSE \E fd_in \in OpenResults(pFileVars[i].pFilename) :
                        /\ openLog' = Append(openLog,
                              [entry |-> i,
                               file |-> pFileVars[i].pFilename,
                               fd_in |-> fd_in])
                        /\ IF Opened(fd_in)
                           THEN /\ renderLog' = Append(renderLog,
                                     [file |-> pFileVars[i].pFilename,
                                      fd_in |-> fd_in, out |-> fd])
                                /\ openFds' = openFds
                           ELSE /\ renderLog' = renderLog
                                /\ openFds' = IF fd_in >= 0
                                              THEN openFds \cup {fd_in}
                                              ELSE openFds
                        /\ result' = PrintResult(hVar, i)
    /\ pc' = "close"
    /\ UNCHANGED <<startupVars, sig, sigval, hVar, fd, request, acquired,
                   sessions, closeLog, exitStatus>>

(***************************************************************************)
(* main, lines 194-196: VAR_ClosePrintSession for the token and the fd of  *)
(* main.  The server drops the session of the token, its request is over,  *)
(* and the descriptor is closed.                                           *)
(***************************************************************************)
\* the session closed only when PrintFileVar returned EOK
ClosePrintSession_OnlyOnEOK ==
    /\ pc = "close"
    /\ IF result = EOK
       THEN /\ closeLog' = Append(closeLog, [token |-> sigval, fd |-> fd])
            /\ sessions' = sessions \ {sigval}
            /\ openFds' = openFds \ {fd}
       ELSE UNCHANGED <<closeLog, sessions, openFds>>
    /\ request' = NoRequest
    /\ pc' = "wait"
    /\ UNCHANGED <<startupVars, sig, sigval, hVar, fd, acquired, result,
                   openLog, renderLog, exitStatus>>

\* the session closed with the handle in the place of the token
ClosePrintSession_WrongToken ==
    /\ pc = "close"
    /\ closeLog' = Append(closeLog, [token |-> hVar, fd |-> fd])
    /\ sessions' = sessions \ {hVar}
    /\ openFds' = openFds \ {fd}
    /\ request' = NoRequest
    /\ pc' = "wait"
    /\ UNCHANGED <<startupVars, sig, sigval, hVar, fd, acquired, result,
                   openLog, renderLog, exitStatus>>

VAR_ClosePrintSession ==
    /\ pc = "close"
    /\ closeLog' = Append(closeLog, [token |-> sigval, fd |-> fd])
    /\ sessions' = sessions \ {sigval}
    /\ openFds' = openFds \ {fd}
    /\ request' = NoRequest
    /\ pc' = "wait"
    /\ UNCHANGED <<startupVars, sig, sigval, hVar, fd, acquired, result,
                   openLog, renderLog, exitStatus>>

(***************************************************************************)
(* TerminationHandler, lines 473-480, installed for SIGTERM and SIGINT by  *)
(* SetupTerminationHandler: it runs at any point of main once installed,   *)
(* closes the connection held in state.hVarServer and exits with 1.        *)
(***************************************************************************)
TerminationHandler ==
    /\ installed
    /\ pc \notin {"exited", "returned"}
    /\ conn' = IF hVarServer # NULL THEN "closed" ELSE conn
    /\ exitStatus' = 1
    /\ pc' = "exited"
    /\ UNCHANGED <<argc, installed, hVarServer, cfg, idx, setupResult,
                   mallocLog, pFileVars, subscribed, loopVars>>

Next ==
    \/ Usage
    \/ SetupTerminationHandler
    \/ VARSERVER_Open
    \/ StoreServerHandle
    \/ SetupFileVar
    \/ EnterLoop
    \/ VARSERVER_WaitSignal
    \/ VAR_OpenPrintSession
    \/ PrintFileVar
    \/ VAR_ClosePrintSession
    \/ TerminationHandler

Spec == Init /\ [][Next]_vars

(***************************************************************************)
(* Vocabulary of the properties.                                           *)
(***************************************************************************)
\* the registry has no entry, or some entry, with handle h
NoEntryFor(h) == \A i \in 1..Len(pFileVars) : pFileVars[i].hVar # h
HasEntryFor(h) == \E i \in 1..Len(pFileVars) : pFileVars[i].hVar = h

\* the process is inside an iteration that received a print notification
InIteration == pc \in {"acquire", "print", "close"}
\* the loop is back at VARSERVER_WaitSignal after a print notification
IterationDone == pc = "wait" /\ sig = SIG_VAR_PRINT

\* the step is a step of main, not the termination handler
MainStep == exitStatus' = exitStatus

\* record k of the configuration was registered: SetupFileVar returned EOK
Registered(k) == k \in 1..Len(setupResult) /\ setupResult[k] = EOK
\* the list entry SetupFileVar made for the registered record k
EntryOf(k) ==
    pFileVars[Cardinality({j \in k..Len(setupResult) : setupResult[j] = EOK})]
\* no registered record after k resolves to the handle record k resolves to
LastForHandle(k) ==
    \A j \in (k + 1)..Len(setupResult) :
       Registered(j) => VAR_FindByName(cfg[j].var) # VAR_FindByName(cfg[k].var)

(***************************************************************************)
(* C1: every iteration of the loop that received a print notification      *)
(* calls VAR_ClosePrintSession exactly once, for the token of that         *)
(* notification: not before PrintFileVar has returned, and once when the   *)
(* loop is back at the wait, whatever PrintFileVar found or opened.        *)
(***************************************************************************)
C1_ReleasedOncePerPrint ==
    /\ InIteration => closeLog = <<>>
    /\ IterationDone =>
          /\ Len(closeLog) = 1
          /\ closeLog[1].token = sigval

\* an iteration whose open failed has ended with its session closed
C1_Witness ==
    /\ IterationDone
    /\ Len(closeLog) = 1
    /\ result = EOK
    /\ Len(openLog) = 1
    /\ openLog[1].fd_in = -1

(***************************************************************************)
(* C2: a SetupFileVar call for a record whose name does not resolve to a   *)
(* variable handle, or that lacks its name or its file, returns an error   *)
(* and leaves the registry as it was.  (A failed malloc of the entry is    *)
(* not a property of the record; line 260 returns EINVAL for it.)          *)
(***************************************************************************)
C2_BadRecordNotRegistered ==
    [][(pc = "setup" /\ idx' = idx + 1) =>
          LET node == cfg[idx]
              bad == \/ node.var = NULL
                     \/ node.file = NULL
                     \/ VAR_FindByName(node.var) = VAR_INVALID
          IN  bad => /\ setupResult'[idx] # EOK
                     /\ pFileVars' = pFileVars]_vars

(***************************************************************************)
(* C3: no entry whose handle is VAR_INVALID is ever matched: every file    *)
(* opened, and every file rendered, in an iteration belongs to an entry    *)
(* with a valid handle.                                                    *)
(***************************************************************************)
C3_InvalidNeverMatched ==
    /\ \A k \in 1..Len(openLog) :
          pFileVars[openLog[k].entry].hVar # VAR_INVALID
    /\ Len(renderLog) <= Len(openLog)
    /\ \A k \in 1..Len(renderLog) : renderLog[k].file = openLog[k].file

\* a notification for VAR_INVALID with an unresolved entry in the registry
C3_Witness ==
    /\ HasEntryFor(VAR_INVALID)
    /\ pc = "close"
    /\ acquired = "ok"
    /\ request.hVar = VAR_INVALID
    /\ result = EINVAL
    /\ openLog = <<>>

\* record k was registered with the handle its name resolves to and with
\* its file
Bound(k) ==
    /\ Registered(k)
    /\ VAR_FindByName(cfg[k].var) # VAR_INVALID
    /\ EntryOf(k).hVar = VAR_FindByName(cfg[k].var)
    /\ EntryOf(k).pFilename = cfg[k].file

\* every record SetupFileVar accepted resolved and stored its file
AllBound == \A j \in 1..Len(setupResult) : Registered(j) => Bound(j)

(***************************************************************************)
(* C4 as claimed: for every record registered from the configuration, a    *)
(* dispatch for the handle its name resolves to opens that record's file   *)
(* and no other.  Stated for the runs in which every name resolved and no  *)
(* copy of a file name failed.                                             *)
(***************************************************************************)
C4_LookupSelectsRecordFile ==
    (pc = "close" /\ acquired = "ok" /\ AllBound) =>
       \A k \in 1..Len(setupResult) :
          (Bound(k) /\ request.hVar = VAR_FindByName(cfg[k].var)) =>
             /\ Len(openLog) = 1
             /\ openLog[1].file = cfg[k].file

(***************************************************************************)
(* C4 as amended: for every record registered from the configuration that  *)
(* no later registered record with the same handle follows, a dispatch for *)
(* the handle its name resolves to opens that record's file and no other.  *)
(***************************************************************************)
C4_LookupSelectsLastRegistered ==
    (pc = "close" /\ acquired = "ok") =>
       \A k \in 1..Len(setupResult) :
          (/\ Bound(k)
           /\ LastForHandle(k)
           /\ request.hVar = VAR_FindByName(cfg[k].var)) =>
             /\ Len(openLog) = 1
             /\ openLog[1].file = cfg[k].file

\* two registered records for "A" with different files; the dispatch for
\* the handle of "A" opened the file of the second
C4_Witness ==
    /\ pc = "close"
    /\ acquired = "ok"
    /\ Len(cfg) = 2
    /\ Bound(1)
    /\ Bound(2)
    /\ cfg[1].var = "A"
    /\ cfg[2].var = "A"
    /\ cfg[1].file # cfg[2].file
    /\ request.hVar = VAR_FindByName("A")
    /\ Len(openLog) = 1
    /\ openLog[1].file = cfg[2].file

(***************************************************************************)
(* C5: a print notification for a valid handle that no registry entry has  *)
(* makes PrintFileVar return ENOENT without an open call, a render or a    *)
(* new open descriptor, and main goes on to close the session and to wait  *)
(* for the next notification.                                              *)
(***************************************************************************)
C5_Miss ==
    /\ acquired = "ok"
    /\ request.hVar # VAR_INVALID
    /\ NoEntryFor(request.hVar)

C5_LookupMissContinues ==
    [][(C5_Miss /\ MainStep) =>
          /\ pc = "print" =>
                /\ result' = ENOENT
                /\ openLog' = <<>>
                /\ renderLog' = <<>>
                /\ openFds' = openFds
                /\ pc' = "close"
          /\ pc = "close" =>
                /\ result' = ENOENT
                /\ openLog' = <<>>
                /\ renderLog' = <<>>
                /\ pc' = "wait"]_vars

\* the loop waits again after a miss on a registry that has entries
C5_Witness ==
    /\ acquired = "ok"
    /\ hVar # VAR_INVALID
    /\ NoEntryFor(hVar)
    /\ pFileVars # <<>>
    /\ IterationDone
    /\ result = ENOENT
    /\ openLog = <<>>
    /\ renderLog = <<>>
    /\ exitStatus = NoResult

(***************************************************************************)
(* C6: when the handle of a print notification has an entry and the open   *)
(* of its file fails, TEMPLATE_FileToFile is not called in that iteration, *)
(* nothing reaches the output descriptor, and main goes on to close the    *)
(* session and to wait for the next notification.                          *)
(***************************************************************************)
OpenFailed(log) == Len(log) = 1 /\ log[1].fd_in < 0

C6_OpenFailureRendersNothing ==
    [][MainStep =>
          /\ (pc = "print" /\ OpenFailed(openLog')) =>
                /\ renderLog' = <<>>
                /\ pc' = "close"
          /\ (pc = "close" /\ OpenFailed(openLog)) =>
                /\ renderLog' = <<>>
                /\ pc' = "wait"]_vars

\* the loop waits again after a request whose file could not be opened
C6_Witness ==
    /\ IterationDone
    /\ acquired = "ok"
    /\ HasEntryFor(hVar)
    /\ OpenFailed(openLog)
    /\ openLog[1].file \in Files
    /\ renderLog = <<>>
    /\ exitStatus = NoResult

(***************************************************************************)
(* C7: when the handle of a print notification has an entry and the open   *)
(* of its file succeeds, with whatever descriptor open returns,            *)
(* TEMPLATE_FileToFile is called exactly once in that iteration, with that *)
(* descriptor and the output descriptor of the request.                    *)
(***************************************************************************)
C7_OpenedFileRenderedOnce ==
    (acquired = "ok" /\ pc = "close") =>
       \A k \in 1..Len(openLog) :
          openLog[k].fd_in >= 0 =>
             renderLog = <<[file |-> openLog[k].file,
                            fd_in |-> openLog[k].fd_in,
                            out |-> request.fd]>>

(***************************************************************************)
(* C8: the process holds at most one print session at any time, and none   *)
(* while it waits for a notification or is about to acquire the session of *)
(* the notification it received.                                           *)
(***************************************************************************)
C8_OneSessionAtATime ==
    /\ Cardinality(sessions) <= 1
    /\ pc \in {"wait", "acquire"} => sessions = {}
    /\ pc \in {"print", "close"} => sessions \subseteq {sigval}

\* a session was acquired and released, and the loop waits again
C8_Witness ==
    /\ IterationDone
    /\ acquired = "ok"
    /\ Len(closeLog) = 1
    /\ sessions = {}

(***************************************************************************)
(* C9: when VAR_OpenPrintSession fails for a notification, nothing is      *)
(* looked up, opened or rendered in that iteration.                        *)
(***************************************************************************)
C9_FailedAcquireDoesNothing ==
    acquired = "failed" =>
       /\ result \notin {ENOENT, EOK}
       /\ openLog = <<>>
       /\ renderLog = <<>>

(***************************************************************************)
(* C10: the process never exits, and never closes its connection to the    *)
(* server, while a print session it acquired is unreleased.                *)
(***************************************************************************)
C10_NoExitWithOpenSession ==
    (pc \in {"exited", "returned"} \/ conn = "closed") => sessions = {}

(***************************************************************************)
(* C11: what an iteration renders is determined by the request of its own  *)
(* notification and by the registry alone: every render is for a request   *)
(* whose session was acquired, of the file of an entry with the handle of  *)
(* that request, to the output descriptor of that request; nothing is      *)
(* rendered from a handle or to a descriptor that was in hVar or fd before *)
(* the notification.                                                       *)
(***************************************************************************)
C11_NoInterference ==
    \A k \in 1..Len(renderLog) :
       /\ acquired = "ok"
       /\ \E i \in 1..Len(pFileVars) :
             /\ pFileVars[i].hVar = request.hVar
             /\ pFileVars[i].pFilename = renderLog[k].file
       /\ renderLog[k].out = request.fd

\* the registered records that resolve to handle h
RecordsFor(h) ==
    {k \in 1..Len(setupResult) :
        Registered(k) /\ VAR_FindByName(cfg[k].var) = h}

\* the last record of a non-empty set of records
LastOf(S) == CHOOSE k \in S : \A j \in S : j <= k

\* several registered records with different files resolve to handle h
Duplicated(h) ==
    \E j, k \in RecordsFor(h) : cfg[j].file # cfg[k].file

(***************************************************************************)
(* C12 as claimed: when several registered records resolve to the handle   *)
(* of a print notification, exactly one file is rendered in its iteration, *)
(* the file of the record registered last.  Stated for the runs in which   *)
(* every name resolved, every file name was copied and open did not        *)
(* return descriptor 0.                                                    *)
(***************************************************************************)
C12_LastRecordRendered ==
    (/\ pc = "close"
     /\ acquired = "ok"
     /\ Duplicated(request.hVar)
     /\ AllBound
     /\ \A k \in 1..Len(openLog) : openLog[k].fd_in # 0) =>
       /\ Len(renderLog) = 1
       /\ renderLog[1].file = cfg[LastOf(RecordsFor(request.hVar))].file

(***************************************************************************)
(* C12 as amended: when several registered records resolve to the valid    *)
(* handle of a print notification, exactly one file is selected in its     *)
(* iteration: there is one open call, on the path stored for the record    *)
(* registered last, and nothing but that file is rendered, at most once.   *)
(***************************************************************************)
C12_LastRecordSelected ==
    (/\ pc = "close"
     /\ acquired = "ok"
     /\ request.hVar # VAR_INVALID
     /\ Duplicated(request.hVar)) =>
       LET last == LastOf(RecordsFor(request.hVar))
       IN  /\ Len(openLog) = 1
           /\ openLog[1].file = EntryOf(last).pFilename
           /\ EntryOf(last).pFilename \in {cfg[last].file, NULL}
           /\ Len(renderLog) <= 1
           /\ \A k \in 1..Len(renderLog) :
                 renderLog[k].file = cfg[last].file

\* two registered records for "B" with different files; the file of the
\* second was rendered to the output descriptor of the request
C12_Witness ==
    /\ pc = "close"
    /\ acquired = "ok"
    /\ request.hVar = VAR_FindByName("B")
    /\ RecordsFor(request.hVar) = {1, 2}
    /\ cfg[1].file # cfg[2].file
    /\ renderLog = <<[file |-> cfg[2].file,
                      fd_in |-> openLog[1].fd_in,
                      out |-> request.fd]>>

\* the process is in the dispatch loop
InLoop == pc \in {"wait", "acquire", "print", "close"}

(***************************************************************************)
(* C13: once the dispatch loop has been entered no step changes the        *)
(* registry: no notification, no outcome of a dispatch and no signal adds, *)
(* removes, reorders or changes an entry.                                  *)
(***************************************************************************)
C13_RegistryReadOnly ==
    [][InLoop => pFileVars' = pFileVars]_vars

\* the loop waits again, with its two entries, after a request whose file
\* could not be opened
C13_Witness ==
    /\ IterationDone
    /\ acquired = "ok"
    /\ Len(pFileVars) = 2
    /\ Len(openLog) = 1
    /\ openLog[1].fd_in = -1
    /\ result = EOK

\* record k has both fields and a name that resolves
GoodRecord(k) ==
    /\ cfg[k].var # NULL
    /\ cfg[k].file # NULL
    /\ VAR_FindByName(cfg[k].var) # VAR_INVALID

\* record k is registered under the handle its name resolves to
RegisteredWithHandle(k) ==
    /\ Registered(k)
    /\ EntryOf(k).hVar = VAR_FindByName(cfg[k].var)
    /\ EntryOf(k).pFilename \in {cfg[k].file, NULL}

(***************************************************************************)
(* C14 as claimed: when the dispatch loop has been entered, every record   *)
(* of the configuration that has both fields and a resolvable name is      *)
(* registered, whatever the other records are.                             *)
(***************************************************************************)
C14_GoodRecordsRegistered ==
    InLoop =>
       \A k \in 1..Len(cfg) : GoodRecord(k) => RegisteredWithHandle(k)

(***************************************************************************)
(* C14 amended: the registration pass visits every record, whatever        *)
(* SetupFileVar returned for the records before it, and main enters the    *)
(* loop after it: it never returns once the pass has begun.  In the loop   *)
(* every record that has both fields and a resolvable name, and whose      *)
(* entry malloc did allocate, is registered under its handle.              *)
(***************************************************************************)
C14_FailuresArePerRecord ==
    /\ pc = "setup" => Len(setupResult) = idx - 1
    /\ pc = "returned" => setupResult = <<>>
    /\ InLoop =>
          /\ Len(setupResult) = Len(cfg)
          /\ Len(mallocLog) = Len(cfg)
          /\ \A k \in 1..Len(cfg) :
                (GoodRecord(k) /\ mallocLog[k] # "nomem") =>
                   RegisteredWithHandle(k)

\* the loop waits with the second record registered after a first record
\* without a file, and after a first record whose entry was not allocated
C14_Witness ==
    /\ pc = "wait"
    /\ Len(cfg) = 2
    /\ GoodRecord(2)
    /\ RegisteredWithHandle(2)
    /\ Len(pFileVars) = 1
    /\ \/ cfg[1].file = NULL
       \/ mallocLog[1] = "nomem"

C16_TerminationClosesConnection ==
    (pc = "exited" /\ installed) =>
       /\ exitStatus = 1
       /\ conn # "open"

\* main has stopped by itself before the dispatch loop
StoppedAtStartup == pc = "returned" \/ (pc = "exited" /\ ~installed)

\* nothing was registered or subscribed and no notification was waited for
NothingDone ==
    /\ setupResult = <<>>
    /\ pFileVars = <<>>
    /\ subscribed = {}
    /\ sig = NULL
    /\ sessions = {}

(***************************************************************************)
(* C17 as claimed: main stops by itself before the dispatch loop only when *)
(* VARSERVER_Open has failed.                                              *)
(***************************************************************************)
C17_OnlyOpenFailureStops ==
    StoppedAtStartup => (pc = "returned" /\ installed /\ conn = "none")

(***************************************************************************)
(* C17 amended: main stops by itself before the dispatch loop only when    *)
(* there are fewer than two arguments or when VARSERVER_Open has failed.   *)
(* In both cases no record is registered, no handle is subscribed and no   *)
(* notification is waited for.  When VARSERVER_Open has succeeded main     *)
(* does not return: the registration pass and the loop run with the        *)
(* handle of the open connection, whatever the configuration is.           *)
(***************************************************************************)
C17_StartupFailures ==
    /\ pc = "returned" =>
          /\ argc >= 2
          /\ conn = "none"
          /\ hVarServer = NULL
          /\ NothingDone
    /\ (pc = "exited" /\ ~installed) =>
          /\ argc < 2
          /\ conn = "none"
          /\ exitStatus = 1
          /\ NothingDone
    /\ (pc = "setup" \/ InLoop) =>
          /\ hVarServer # NULL
          /\ conn = "open"

\* VARSERVER_Open failed before a configuration of two good records
C17_Witness ==
    /\ pc = "returned"
    /\ Len(cfg) = 2
    /\ GoodRecord(1)
    /\ GoodRecord(2)
    /\ pFileVars = <<>>

(***************************************************************************)
(* C18: when PrintFileVar has returned, and when the loop waits for the    *)
(* next notification, the process holds no template file descriptor open,  *)
(* whatever descriptor open returned.                                      *)
(***************************************************************************)
C18_NoDescriptorLeftOpen ==
    ((pc = "close" /\ acquired = "ok") \/ pc = "wait") => openFds = {}

(***************************************************************************)
(* C19: PrintFileVar returns EINVAL exactly when the handle is             *)
(* VAR_INVALID, ENOENT exactly when the handle is valid and has no         *)
(* registry entry, and EOK exactly when the handle has an entry and the    *)
(* file of the entry was rendered.  Stated for the iterations that         *)
(* acquired their session, in the runs in which every name resolved and    *)
(* every file name was copied.                                             *)
(***************************************************************************)
C19_PrintFileVarReturnValue ==
    (pc = "close" /\ acquired = "ok" /\ AllBound) =>
       /\ result = EINVAL <=> hVar = VAR_INVALID
       /\ result = ENOENT <=> (hVar # VAR_INVALID /\ NoEntryFor(hVar))
       /\ result = EOK <=> (/\ hVar # VAR_INVALID
                            /\ HasEntryFor(hVar)
                            /\ Len(renderLog) = 1)

(***************************************************************************)
(* C20: a step of main that receives a signal other than SIG_VAR_PRINT     *)
(* leaves the loop waiting: it acquires and releases no session, looks up, *)
(* opens and renders nothing, and changes neither the registry nor the     *)
(* subscriptions, the connection or the state of the sessions.             *)
(***************************************************************************)
C20_OtherSignalIgnored ==
    [][(pc = "wait" /\ MainStep /\ sig' # SIG_VAR_PRINT) =>
          /\ pc' = "wait"
          /\ acquired' = NULL
          /\ result' = NoResult
          /\ openLog' = <<>>
          /\ renderLog' = <<>>
          /\ closeLog' = <<>>
          /\ UNCHANGED <<pFileVars, subscribed, hVarServer, conn, sessions,
                         request, hVar, fd, openFds>>]_vars

\* the loop waits again after a signal that is not a print notification,
\* with two entries in the registry
C20_Witness ==
    /\ pc = "wait"
    /\ sig = SIG_OTHER
    /\ Len(pFileVars) = 2
    /\ acquired = NULL
    /\ sessions = {}

====
